---- MODULE Spec2Model ----
(***************************************************************************)
(* Model of src/src/compilation.ts of hardhat-yul: one run of compileYul   *)
(* or compileYulp over the files discovered under the sources root.        *)
(*                                                                         *)
(* Text (paths, hex strings, signature texts) is a sequence of one-        *)
(* character strings.  An optional JavaScript value is a sequence of       *)
(* length at most one: <<>> is undefined, <<v>> is the value v.            *)
(***************************************************************************)
EXTENDS Integers, Sequences, FiniteSets, TLC

\* ------------------------------------------------------------- bounds
MaxFiles == 3
MaxSigs == 2
MaxTopics == 1
MaxObjects == 2

\* ------------------------------------------------------------- text helpers
None == <<>>
Some(v) == <<v>>

Min(a, b) == IF a < b THEN a ELSE b
Max(a, b) == IF a > b THEN a ELSE b

\* String.prototype.indexOf for a one-character needle: 0-based, -1 when absent.
IndexOf(s, c) ==
    IF \E i \in 1..Len(s) : s[i] = c
    THEN (CHOOSE i \in 1..Len(s) : s[i] = c /\ \A j \in 1..(i - 1) : s[j] # c) - 1
    ELSE -1

\* String.prototype.substring(a, b): arguments clamped to [0, length], swapped
\* when a > b, end exclusive.
Substring(s, a, b) ==
    LET ca == Min(Max(a, 0), Len(s))
        cb == Min(Max(b, 0), Len(s))
        lo == Min(ca, cb)
        hi == Max(ca, cb)
    IN SubSeq(s, lo + 1, hi)

\* String.prototype.slice(a, b): a negative argument counts from the end,
\* empty when the start is not before the end.
Slice(s, a, b) ==
    LET from == IF a < 0 THEN Max(Len(s) + a, 0) ELSE Min(a, Len(s))
        to == IF b < 0 THEN Max(Len(s) + b, 0) ELSE Min(b, Len(s))
    IN IF from < to THEN SubSeq(s, from + 1, to) ELSE <<>>

EndsWith(s, suffix) ==
    /\ Len(s) >= Len(suffix)
    /\ SubSeq(s, Len(s) - Len(suffix) + 1, Len(s)) = suffix

\* Array.prototype.map over a sequence of texts.
MapSlice(seq, a, b) == [i \in 1..Len(seq) |-> Slice(seq[i], a, b)]

\* ------------------------------------------------------------- the project
ExtYul == <<".", "y", "u", "l">>
ExtYulp == <<".", "y", "u", "l", "p">>
Ext(d) == IF d = "yulp" THEN ExtYulp ELSE ExtYul

Root == <<"proj">>
SourcesDir == Root \o <<"contracts">>

\* The source files a project may hold under its sources root, stems in the
\* order glob.sync returns them (sorted by path).
Stems ==
    << [dirs |-> SourcesDir, stem |-> <<"B", "a", "r">>],
       [dirs |-> SourcesDir, stem |-> <<"F", "o", "o", ".", "b", "a", "r">>],
       [dirs |-> SourcesDir, stem |-> <<"F", "o", "o">>],
       [dirs |-> SourcesDir \o <<"sub">>, stem |-> <<"F", "o", "o">>] >>

FileOf(k, d) == [dirs |-> Stems[k].dirs, base |-> Stems[k].stem \o Ext(d)]

\* A file of the other dialect and a file that is no source at all: both lie
\* under the sources root in every project of the model.
OtherFiles(d) ==
    << [dirs |-> SourcesDir, base |-> <<"O", "t", "h">> \o Ext(IF d = "yulp" THEN "yul" ELSE "yulp")],
       [dirs |-> SourcesDir, base |-> <<"R", "E", "A", "D", "M", "E">>] >>

RECURSIVE Pick(_, _, _)
Pick(chosen, k, d) ==
    IF k > Len(Stems) THEN <<>>
    ELSE (IF k \in chosen THEN <<FileOf(k, d)>> ELSE <<>>) \o Pick(chosen, k + 1, d)

\* The content of the sources directory, in path order.
Disk(chosen, d) == Pick(chosen, 1, d) \o OtherFiles(d)

RECURSIVE Filter(_, _)
Filter(listing, ext) ==
    IF listing = <<>> THEN <<>>
    ELSE (IF /\ EndsWith(Head(listing).base, ext)
             /\ Len(Head(listing).base) > Len(ext)
             /\ Len(Head(listing).dirs) >= Len(SourcesDir)
             /\ SubSeq(Head(listing).dirs, 1, Len(SourcesDir)) = SourcesDir
          THEN <<Head(listing)>> ELSE <<>>) \o Filter(Tail(listing), ext)

\* glob.sync(<sources>/**/*.yul) and glob.sync(<sources>/**/*.yulp)
getYulSources(listing) == Filter(listing, ExtYul)
getYulpSources(listing) == Filter(listing, ExtYulp)
getSources(listing, d) == IF d = "yulp" THEN getYulpSources(listing) ELSE getYulSources(listing)

\* ------------------------------------------------------------- paths
RECURSIVE JoinPath(_)
JoinPath(dirs) == IF dirs = <<>> THEN <<>> ELSE <<Head(dirs), "/">> \o JoinPath(Tail(dirs))

\* The absolute path glob.sync returns for a file.
AbsolutePath(file) == <<"/">> \o JoinPath(file.dirs) \o file.base

LastIndexOf(s, c) ==
    IF \E i \in 1..Len(s) : s[i] = c
    THEN CHOOSE i \in 1..Len(s) : s[i] = c /\ \A j \in (i + 1)..Len(s) : s[j] # c
    ELSE 0

\* path.basename: the text after the last separator.
Basename(p) == SubSeq(p, LastIndexOf(p, "/") + 1, Len(p))

\* hardhat's localPathToSourceName(paths.root, file): the path of the file
\* relative to the project root, with forward slashes.
localPathToSourceName(root, file) ==
    JoinPath(SubSeq(file.dirs, Len(root) + 1, Len(file.dirs))) \o file.base

pathToContractName(file) ==
    LET sourceName == Basename(file)
    IN Substring(sourceName, 0, IndexOf(sourceName, "."))

\* ------------------------------------------------------------- the transpiler
Q == "\""
\* Raw signature texts of the transpiler's side-table: sig"a()", sig"b()", ...
AllSignatures ==
    << <<"s", "i", "g", Q, "a", "(", ")", Q>>,
       <<"s", "i", "g", Q, "b", "(", ")", Q>>,
       <<"s", "i", "g", Q, "c", "(", ")", Q>> >>
\* Raw topic texts: topic"E()", topic"F()"
AllTopics ==
    << <<"t", "o", "p", "i", "c", Q, "E", "(", ")", Q>>,
       <<"t", "o", "p", "i", "c", Q, "F", "(", ")", Q>> >>

SigEntry(text) == [abi |-> text]

\* What yulp.compile(data) may return for a source text: the side-table of
\* s signatures and t topics.
TranspileResults ==
    { [signatures |-> [i \in 1..s |-> SigEntry(AllSignatures[i])],
       topics |-> [i \in 1..t |-> SigEntry(AllTopics[i])]] :
        s \in 0..Min(MaxSigs, Len(AllSignatures)), t \in 0..Min(MaxTopics, Len(AllTopics)) }

\* ------------------------------------------------------------- the backend
Ox == <<"0", "x">>
HexObjects == {<<"6", "0">>}
RuntimeCode ==
    { [object |-> <<>>, functionDebugData |-> None],
      [object |-> <<"f", "e">>, functionDebugData |-> None],
      [object |-> <<"f", "e">>, functionDebugData |-> Some("dbgA")] }

\* output.contracts["Target.yul"][name]["evm"]
ContractObjects ==
    [bytecode : [object : HexObjects], deployedBytecode : {None} \cup {Some(r) : r \in RuntimeCode}]

\* A further contract object a backend may report after the first one.
ExtraObject ==
    [bytecode |-> [object |-> <<"0", "0">>],
     deployedBytecode |-> Some([object |-> <<"0", "0">>, functionDebugData |-> Some("dbgB")])]

\* Object.values(output.contracts["Target.yul"]) in key order.
ContractLists ==
    {<<>>} \cup { <<first>> \o [i \in 1..extra |-> ExtraObject] :
                    first \in ContractObjects, extra \in 0..(MaxObjects - 1) }

Warning == [severity |-> "warning"]
Error == [severity |-> "error"]
DiagnosticLists == {<<>>, <<Warning>>, <<Warning, Error>>}

\* What compiler.compile(input) may resolve to.
BackendOutputs ==
    [errors : {None} \cup {Some(d) : d \in DiagnosticLists},
     contracts : {None} \cup {Some(c) : c \in ContractLists}]

\* ------------------------------------------------------------- synthesis
Format == <<"hh-sol-artifact-1">>

\* Whether reading output.contracts["Target.yul"][contractObjects[0]]["evm"]
\* succeeds: the backend reported at least one contract object.
HasContractObject(out) == out.contracts # None /\ Len(out.contracts[1]) > 0
FirstObject(out) == out.contracts[1][1]

Bytecode0x(obj) == Ox \o obj.bytecode.object

DeployedBytecode0xNoPrefix(obj) ==
    IF obj.deployedBytecode # None THEN obj.deployedBytecode[1].object ELSE Ox
DeployedBytecode0x(obj) ==
    IF obj.deployedBytecode # None THEN Ox \o obj.deployedBytecode[1].object ELSE Ox

\* evm?.deployedBytecode?.functionDebugData
DebugDataOf(obj) ==
    IF obj.deployedBytecode # None THEN obj.deployedBytecode[1].functionDebugData ELSE None

\* The record _compileYul returns.
CompileYulResult(filename, out) ==
    [_format |-> Format,
     sourceName |-> filename,
     abi |-> <<>>,
     bytecode |-> Bytecode0x(FirstObject(out)),
     deployedBytecode |-> DeployedBytecode0x(FirstObject(out)),
     functionDebugData |-> DebugDataOf(FirstObject(out))]

\* source.signatures.map(v => v.abi.slice(4, -1))
\*   .concat(source.topics.map(v => v.abi.slice(6, -1)))
SynthesizeAbi(src) ==
    MapSlice([i \in 1..Len(src.signatures) |-> src.signatures[i].abi], 4, -1)
        \o MapSlice([i \in 1..Len(src.topics) |-> src.topics[i].abi], 6, -1)

\* The record _compileYulp returns: it has no functionDebugData property.
CompileYulpResult(filename, src, out) ==
    [_format |-> Format,
     sourceName |-> filename,
     abi |-> SynthesizeAbi(src),
     bytecode |-> Bytecode0x(FirstObject(out)),
     deployedBytecode |-> DeployedBytecode0x(FirstObject(out)),
     functionDebugData |-> None]

getArtifactFromYulOutputBasename(sourceName, out) ==
    [_format |-> Format,
     contractName |-> pathToContractName(sourceName),
     sourceName |-> Basename(sourceName),
     abi |-> <<>>,
     bytecode |-> out.bytecode,
     deployedBytecode |-> out.deployedBytecode,
     linkReferences |-> <<>>,
     deployedLinkReferences |-> <<>>,
     functionDebugData |-> out.functionDebugData]

getArtifactFromYulOutput(sourceName, out) ==
    [_format |-> Format,
     contractName |-> pathToContractName(sourceName),
     sourceName |-> sourceName,
     abi |-> <<>>,
     bytecode |-> out.bytecode,
     deployedBytecode |-> out.deployedBytecode,
     linkReferences |-> <<>>,
     deployedLinkReferences |-> <<>>,
     functionDebugData |-> out.functionDebugData]

\* The lines checkCompilationErrors prints for a diagnostics sequence.
ReportLines(errors) ==
    [i \in 1..Len(errors) |-> IF errors[i].severity # "warning" THEN "console.error" ELSE "console.warn"]

\* { ...artifact, artifacts: [artifact.contractName] }
ValidEntry(a) ==
    [_format |-> a._format,
     contractName |-> a.contractName,
     sourceName |-> a.sourceName,
     abi |-> a.abi,
     bytecode |-> a.bytecode,
     deployedBytecode |-> a.deployedBytecode,
     linkReferences |-> a.linkReferences,
     deployedLinkReferences |-> a.deployedLinkReferences,
     functionDebugData |-> a.functionDebugData,
     artifacts |-> <<a.contractName>>]

\* ------------------------------------------------------------- the run
VARIABLES
    dialect,      \* "yul": a run of compileYul, "yulp": a run of compileYulp
    disk,         \* the listing of the sources directory
    files,        \* const files
    idx,          \* the position of the for-of loop in files
    pc,           \* the statement the run is at
    compiler,     \* const compiler (optional)
    source,       \* const source of _compileYulp (optional)
    output,       \* const output of _compileYul / _compileYulp (optional)
    yulOutput,    \* const yulOutput (optional)
    artifact,     \* const artifact (optional)
    allArtifacts, \* const allArtifacts
    saved,        \* the artifacts passed to artifacts.saveArtifactAndDebugFile
    registered,   \* the entries passed to artifactsImpl.addValidArtifacts
    reported,     \* the lines checkCompilationErrors printed for the current file
    inflight,     \* the compiler.compile calls that have not settled
    phase,        \* the pipeline state of each discovered file
    trace,        \* the pipeline states each discovered file went through
    failures      \* the exceptions thrown: the file and the cause

vars == <<dialect, disk, files, idx, pc, compiler, source, output, yulOutput, artifact,
          allArtifacts, saved, registered, reported, inflight, phase, trace, failures>>

locals == <<compiler, source, output, yulOutput, artifact, reported>>
sink == <<allArtifacts, saved, registered>>
project == <<dialect, disk, files>>

Init ==
    /\ dialect \in {"yul", "yulp"}
    /\ \E chosen \in SUBSET (1..Len(Stems)) :
          /\ Cardinality(chosen) <= MaxFiles
          /\ disk = Disk(chosen, dialect)
    /\ files = <<>>
    /\ idx = 0
    /\ pc = "discover"
    /\ compiler = None /\ source = None /\ output = None
    /\ yulOutput = None /\ artifact = None
    /\ allArtifacts = <<>> /\ saved = <<>> /\ registered = <<>>
    /\ reported = <<>>
    /\ inflight = 0
    /\ phase = <<>> /\ trace = <<>>
    /\ failures = <<>>

Reach(st) ==
    /\ phase' = [phase EXCEPT ![idx] = st]
    /\ trace' = [trace EXCEPT ![idx] = Append(@, st)]

\* Where an exception thrown in the loop body takes the run: out of
\* compileYul / compileYulp, which have no try block.
AfterThrowCaught == "loop"
AfterThrow == "aborted"

Throw(cause) ==
    /\ Reach("Failed")
    /\ failures' = Append(failures, [file |-> idx, cause |-> cause])
    /\ pc' = AfterThrow

\* const files = await getYulSources(paths) / getYulpSources(paths)
Discover ==
    /\ pc = "discover"
    /\ files' = getSources(disk, dialect)
    /\ phase' = [i \in 1..Len(files') |-> "Located"]
    /\ trace' = [i \in 1..Len(files') |-> <<"Located">>]
    /\ pc' = "loop"
    /\ UNCHANGED <<dialect, disk, idx, locals, sink, inflight, failures>>

\* for (const file of files): the next file, with the body's constants unset;
\* console.log(`Compiling ${cwdPath}...`)
LoopNext ==
    /\ pc = "loop"
    /\ idx < Len(files)
    /\ idx' = idx + 1
    /\ compiler' = None /\ source' = None /\ output' = None
    /\ yulOutput' = None /\ artifact' = None /\ reported' = <<>>
    /\ pc' = "getCompiler"
    /\ UNCHANGED <<project, sink, inflight, phase, trace, failures>>

\* The loop is over: the run returns.
LoopEnd ==
    /\ pc = "loop"
    /\ idx = Len(files)
    /\ pc' = "done"
    /\ UNCHANGED <<project, idx, locals, sink, inflight, phase, trace, failures>>

\* The call the loop body makes after getCompiler.
AfterGetCompilerAlwaysYulp(d) == "transpile"
AfterGetCompiler(d) == IF d = "yulp" THEN "transpile" ELSE "invoke"

\* const compiler = await getCompiler(_yulConfig, run)
GetCompiler ==
    /\ pc = "getCompiler"
    /\ \/ /\ \E isSolcJs \in BOOLEAN :
               compiler' = Some(IF isSolcJs THEN "Compiler" ELSE "NativeCompiler")
          /\ Reach("BackendSelected")
          /\ pc' = AfterGetCompiler(dialect)
          /\ UNCHANGED failures
       \/ /\ Throw("BackendUnavailableError")
          /\ UNCHANGED compiler
    /\ UNCHANGED <<project, idx, source, output, yulOutput, artifact, reported, sink, inflight>>

\* _compileYulp: const source = yulp.compile(data)
Transpile ==
    /\ pc = "transpile"
    /\ \/ /\ \E r \in TranspileResults : source' = Some(r)
          /\ Reach("Transpiled")
          /\ pc' = "invoke"
          /\ UNCHANGED failures
       \/ /\ Throw("DialectSyntaxError")
          /\ UNCHANGED source
    /\ UNCHANGED <<project, idx, compiler, output, yulOutput, artifact, reported, sink, inflight>>

\* Where the run goes once compiler.compile(input) has been called: the call
\* is awaited.
AfterInvokeNoAwait == "loop"
AfterInvoke == "awaitCompile"

\* compiler.compile({ language: "Yul", sources: { "Target.yul": ... }, ... })
CompileStart ==
    /\ pc = "invoke"
    /\ inflight' = inflight + 1
    /\ pc' = AfterInvoke
    /\ UNCHANGED <<project, idx, locals, sink, phase, trace, failures>>

\* const output = await compiler.compile(...): the call settles.
CompileReturn ==
    /\ pc = "awaitCompile"
    /\ inflight' = inflight - 1
    /\ \/ /\ \E out \in BackendOutputs : output' = Some(out)
          /\ Reach("Invoked")
          /\ pc' = "check"
          /\ UNCHANGED failures
       \/ /\ Throw("BackendRejected")
          /\ UNCHANGED output
    /\ UNCHANGED <<project, idx, compiler, source, yulOutput, artifact, reported, sink>>

\* checkCompilationErrors(filename, output.errors): for (const error of errors)
\* throws a TypeError when errors is undefined.
CheckCompilationErrors ==
    /\ pc = "check"
    /\ IF output[1].errors = None
       THEN /\ Throw("TypeError: errors is not iterable")
            /\ UNCHANGED reported
       ELSE /\ reported' = ReportLines(output[1].errors[1])
            /\ Reach("Diagnosed")
            /\ pc' = "extract"
            /\ UNCHANGED failures
    /\ UNCHANGED <<project, idx, compiler, source, output, yulOutput, artifact, sink, inflight>>

\* The rest of _compileYul / _compileYulp: the record it returns, or the
\* TypeError of reading a contract object the backend did not report.
ExtractOutput ==
    /\ pc = "extract"
    /\ IF HasContractObject(output[1])
       THEN /\ yulOutput' = Some(IF dialect = "yulp"
                                 THEN CompileYulpResult(AbsolutePath(files[idx]), source[1], output[1])
                                 ELSE CompileYulResult(AbsolutePath(files[idx]), output[1]))
            /\ pc' = "artifact"
            /\ UNCHANGED <<phase, trace, failures>>
       ELSE /\ Throw("TypeError: no contract object")
            /\ UNCHANGED yulOutput
    /\ UNCHANGED <<project, idx, compiler, source, output, artifact, reported, sink, inflight>>

\* const sourceName = await localPathToSourceName(paths.root, file);
\* const artifact = getArtifactFromYulOutput(sourceName, yulOutput)
BuildArtifact ==
    /\ pc = "artifact"
    /\ artifact' = Some(getArtifactFromYulOutput(localPathToSourceName(Root, files[idx]), yulOutput[1]))
    /\ Reach("Synthesized")
    /\ pc' = "save"
    /\ UNCHANGED <<project, idx, compiler, source, output, yulOutput, reported, sink, inflight, failures>>

\* await artifacts.saveArtifactAndDebugFile(artifact)
SaveArtifact ==
    /\ pc = "save"
    /\ saved' = Append(saved, artifact[1])
    /\ Reach("Sunk")
    /\ pc' = "register"
    /\ UNCHANGED <<project, idx, locals, allArtifacts, registered, inflight, failures>>

\* allArtifacts.push({ ...artifact, artifacts: [artifact.contractName] });
\* artifactsImpl.addValidArtifacts(allArtifacts)
Register ==
    /\ pc = "register"
    /\ allArtifacts' = Append(allArtifacts, ValidEntry(artifact[1]))
    /\ registered' = registered \o allArtifacts'
    /\ pc' = "loop"
    /\ UNCHANGED <<project, idx, locals, saved, inflight, phase, trace, failures>>

Next ==
    \/ Discover
    \/ LoopNext
    \/ LoopEnd
    \/ GetCompiler
    \/ Transpile
    \/ CompileStart
    \/ CompileReturn
    \/ CheckCompilationErrors
    \/ ExtractOutput
    \/ BuildArtifact
    \/ SaveArtifact
    \/ Register

Spec == Init /\ [][Next]_vars

\* ------------------------------------------------------------- properties
FileIds == 1..Len(files)
RunOver == pc \in {"done", "aborted"}
\* The current file has been handed to the sink and the loop body's constants
\* are still those of that file.
CurrentSunk == idx \in FileIds /\ phase[idx] = "Sunk"
LastSaved == saved[Len(saved)]

IsPrefix(s, t) == Len(s) <= Len(t) /\ SubSeq(t, 1, Len(s)) = s
WithoutFailed(t) == IF Len(t) > 0 /\ t[Len(t)] = "Failed" THEN SubSeq(t, 1, Len(t) - 1) ELSE t

ExpectedAbi(src) ==
    [i \in 1..(Len(src.signatures) + Len(src.topics)) |->
        IF i <= Len(src.signatures)
        THEN SubSeq(src.signatures[i].abi, 5, Len(src.signatures[i].abi) - 1)
        ELSE LET t == src.topics[i - Len(src.signatures)].abi IN SubSeq(t, 7, Len(t) - 1)]

\* C2 (as claimed): the artifact of a .yulp file handed to the sink has the ABI
\* of s + t fragments synthesized from the side-table of the transpiler.
C2_AbiSynthesis ==
    (dialect = "yulp" /\ CurrentSunk) => LastSaved.abi = ExpectedAbi(source[1])

\* C3 (as claimed): a file whose backend output holds a contract object under
\* "Target.yul" never fails, whatever output.errors is (absent, empty,
\* warnings only, with errors): checkCompilationErrors does not raise.
C3_DiagnosticsNeverStop ==
    \A i \in FileIds :
        (i = idx /\ output # None /\ HasContractObject(output[1])) => phase[i] # "Failed"

\* C4 (as claimed): no two artifacts handed to the sink carry the same
\* contractName.
C4_ContractNameUnique ==
    \A i, j \in 1..Len(saved) : i # j => saved[i].contractName # saved[j].contractName

\* C4 (amended): no two artifacts handed to the sink carry the same sourceName,
\* and the artifact of each file carries the file's path below the project
\* root; the contractName alone may repeat.
C4_SourceNameUnique ==
    /\ \A i, j \in 1..Len(saved) : i # j => saved[i].sourceName # saved[j].sourceName
    /\ \A i \in 1..Len(saved) :
          <<"/">> \o JoinPath(Root) \o saved[i].sourceName = AbsolutePath(files[i])

\* C4 witness: two files with equal basenames in different directories were
\* both handed to the sink, under one contractName.
C4_Witness ==
    \E i, j \in 1..Len(saved) :
        /\ i # j
        /\ files[i].base = files[j].base
        /\ files[i].dirs # files[j].dirs
        /\ saved[i].contractName = saved[j].contractName

\* C5 (as claimed): the contractName of every artifact is the basename of its
\* file without the extension ".yul" / ".yulp".
C5_Naming ==
    \A i \in 1..Len(saved) :
        saved[i].contractName =
            SubSeq(files[i].base, 1, Len(files[i].base) - Len(Ext(dialect)))

\* C6: in the artifact handed to the sink, bytecode is "0x" followed by the
\* code of the first contract object, deployedBytecode is "0x" followed by its
\* runtime code, or "0x" alone when there is none; both begin with "0x".
C6_BytecodeForm ==
    /\ CurrentSunk =>
          LET first == output[1].contracts[1][1]
          IN /\ LastSaved.bytecode = <<"0", "x">> \o first.bytecode.object
             /\ LastSaved.deployedBytecode =
                    IF first.deployedBytecode = <<>>
                    THEN <<"0", "x">>
                    ELSE <<"0", "x">> \o first.deployedBytecode[1].object
    /\ \A i \in 1..Len(saved) :
          /\ IsPrefix(<<"0", "x">>, saved[i].bytecode)
          /\ IsPrefix(<<"0", "x">>, saved[i].deployedBytecode)

\* C6 witnesses: a file was handed to the sink whose backend output had no
\* runtime code object, and its deployedBytecode is "0x".
C6_Witness ==
    /\ CurrentSunk
    /\ output[1].contracts[1][1].deployedBytecode = <<>>
    /\ LastSaved.deployedBytecode = <<"0", "x">>
    /\ Len(LastSaved.bytecode) > 2

\* C7 (as claimed): in both dialects the artifact handed to the sink carries
\* the function debug data of the selected contract object, and none only when
\* the backend supplied none.
C7_DebugPassThrough ==
    CurrentSunk =>
        LET first == output[1].contracts[1][1]
        IN LastSaved.functionDebugData =
               IF first.deployedBytecode = <<>>
               THEN <<>>
               ELSE first.deployedBytecode[1].functionDebugData

SpecOrder(d) ==
    IF d = "yulp"
    THEN <<"Located", "Transpiled", "BackendSelected", "Invoked", "Diagnosed", "Synthesized", "Sunk">>
    ELSE <<"Located", "BackendSelected", "Invoked", "Diagnosed", "Synthesized", "Sunk">>

CodeOrder(d) ==
    IF d = "yulp"
    THEN <<"Located", "BackendSelected", "Transpiled", "Invoked", "Diagnosed", "Synthesized", "Sunk">>
    ELSE <<"Located", "BackendSelected", "Invoked", "Diagnosed", "Synthesized", "Sunk">>

\* C8 (as claimed): every file goes through Located, Transpiled (.yulp only),
\* BackendSelected, Invoked, Diagnosed, Synthesized, Sunk in this order, with
\* no step skipped or repeated, and a file that failed transpilation has had
\* no backend selected.
C8_SpecOrder ==
    \A i \in FileIds :
        /\ IsPrefix(WithoutFailed(trace[i]), SpecOrder(dialect))
        /\ (\E f \in 1..Len(failures) :
                failures[f].file = i /\ failures[f].cause = "DialectSyntaxError")
           => \A n \in 1..Len(trace[i]) : trace[i][n] # "BackendSelected"

\* C8 (amended): every file goes through Located, BackendSelected, Transpiled
\* (.yulp only), Invoked, Diagnosed, Synthesized, Sunk in this order, with no
\* step skipped or repeated; the backend is selected before the transpilation,
\* so a file that failed transpilation has had a backend selected.
C8_CodeOrder ==
    \A i \in FileIds :
        /\ IsPrefix(WithoutFailed(trace[i]), CodeOrder(dialect))
        /\ phase[i] = trace[i][Len(trace[i])]
        /\ (\E f \in 1..Len(failures) :
                failures[f].file = i /\ failures[f].cause = "DialectSyntaxError")
           => trace[i] = <<"Located", "BackendSelected", "Failed">>

\* C8 witness: a .yulp file went through every step, and another one failed
\* transpilation.
C8_Witness ==
    /\ dialect = "yulp"
    /\ Len(files) >= 2
    /\ trace[1] = CodeOrder("yulp")
    /\ phase[2] = "Failed"
    /\ failures[1].cause = "DialectSyntaxError"

\* The entries passed to addValidArtifacts for a given source name.
Registrations(name) == {k \in 1..Len(registered) : registered[k].sourceName = name}

\* C9 (as claimed): after a run in which every file succeeded, each artifact
\* was passed once to saveArtifactAndDebugFile and once to addValidArtifacts,
\* n registrations in all.
C9_ExactlyOnce ==
    (pc = "done" /\ failures = <<>>) =>
        /\ Len(saved) = Len(files)
        /\ Len(registered) = Len(files)
        /\ \A i \in 1..Len(saved) : Cardinality(Registrations(saved[i].sourceName)) = 1

\* C10: at most one backend invocation is in flight, it is awaited before the
\* run takes another step, and no file leaves Located before the file ahead of
\* it in discovery order has reached Sunk or Failed.
C10_Sequential ==
    /\ inflight \in {0, 1}
    /\ inflight = 1 <=> pc = "awaitCompile"
    /\ \A i \in FileIds :
          (i > 1 /\ phase[i] # "Located") => phase[i - 1] \in {"Sunk", "Failed"}
    /\ \A i \in FileIds : (phase[i] \notin {"Located", "Sunk", "Failed"}) => i = idx

\* C10 witness: the backend invocation of the second file is in flight after
\* the first file was handed to the sink.
C10_Witness ==
    /\ inflight = 1
    /\ idx = 2
    /\ phase[1] = "Sunk"
    /\ phase[2] \in {"BackendSelected", "Transpiled"}

====
